---------------------------- MODULE Spec2Model ----------------------------
(***************************************************************************)
(* A model of the geometric / numerical engine of time-distortion-map:     *)
(*   utils/visualization.ts  (createStreamlines, generateVoronoi, ...)     *)
(*   utils/statistical.ts    (generateHeatmapData, calculateIsochrones,    *)
(*                            findCentralPoints, calculateAreaCoverage)    *)
(*   components/Map/TimeDistortionMap.tsx (generateTimeMatrix,             *)
(*                            distortPoints)                               *)
(*   components/Map/Layers.tsx (HeatmapLayer)                              *)
(*                                                                         *)
(* Every component is a pure function of its arguments.  Each one has its  *)
(* own specification (SpecStream, SpecMatrix, ...): Init draws the         *)
(* arguments from bounded sets and the actions run the function the way    *)
(* the code runs it.  The variables of the components a specification does *)
(* not exercise stay at their idle value.                                  *)
(*                                                                         *)
(* Arithmetic.  Lengths and coordinates are integers in a fixed unit, so   *)
(* the comparisons of createStreamlines are exact.  Where the code's       *)
(* result depends on the rounding of IEEE-754 doubles (the sum that stores *)
(* a distorted coordinate, the products inside the great-circle distance)  *)
(* the rounding is modelled: see RoundDiv and RoundSig.  A division by     *)
(* zero gives the values JavaScript gives: NaN for 0/0, Infinity for x/0.  *)
(***************************************************************************)
EXTENDS Integers, Sequences, FiniteSets, TLC

VARIABLES
  \* createStreamlines
  vectorField,   \* vectorField[i][j], a vector <<vx, vy>> per grid cell
  bounds,        \* <<xmin, ymin, xmax, ymax>>
  options,       \* [stepSize, maxSteps, lineLength]
  seedIdx,       \* index of the seed the forEach is at (0 .. number of seeds)
  line,          \* integrateLine's line
  cur,           \* integrateLine's x, y
  step,          \* integrateLine's loop counter
  iters,         \* loop bodies entered for the current seed
  stop,          \* why the loop of the current seed ended ("" while it runs)
  streamlines,   \* createStreamlines' result so far
  integrated,    \* the lines integrateLine has returned so far, kept or not
  spc            \* "idle" | "loop" | "return" | "done"

streamVars == <<vectorField, bounds, options, seedIdx, line, cur, step, iters,
                stop, streamlines, integrated, spc>>

VARIABLES
  \* utils/statistical.ts and Layers.tsx, the functions of travelTime alone
  travelTimes,   \* the points' travelTime, in list order (None: the field is absent)
  timeThreshold, \* the timeThreshold argument
  called,        \* the function that was called ("" before the call)
  result         \* what it returned

statVars == <<travelTimes, timeThreshold, called, result>>

VARIABLES
  \* calculateIsochrones, calculateAreaCoverage
  isoPoints,      \* the GridPoint list: [coordinates, travelTime]
  timeThresholds, \* the thresholds, in the caller's order
  isoFn,          \* "isochrones" | "coverage": the function applied per threshold
  isoOut,         \* one entry per threshold handled so far
  isoTrace,       \* per entry: whether the try block was entered, how it ended
  isoPc           \* "idle" | "map" | "done" | "thrown"

isoVars == <<isoPoints, timeThresholds, isoFn, isoOut, isoTrace, isoPc>>

VARIABLES
  \* generateVoronoi
  vorPoints,     \* the sites, in list order
  vorSize,       \* <<width, height>>
  vorOut,        \* the rings returned
  vorPc          \* "idle" | "call" | "done"

vorVars == <<vorPoints, vorSize, vorOut, vorPc>>

VARIABLES
  \* generateTimeMatrix
  matPoints,     \* the points' coordinates <<lng, lat>>, as indices of the lattice
  timeMatrix,    \* the matrix returned
  matPc          \* "idle" | "call" | "done"

matVars == <<matPoints, timeMatrix, matPc>>

VARIABLES
  \* distortPoints
  dPoints,       \* the GridPoint list
  dMatrix,       \* the time matrix
  dFactor,       \* the distortionFactor k of the first call
  dOut,          \* the results of the calls made so far
  dPc            \* "idle" | "k" | "2k" | "zero" | "utils" | "done"

distortVars == <<dPoints, dMatrix, dFactor, dOut, dPc>>

VARIABLES
  \* calculateTimeDistortion, calculateMaxDistortion
  tdPoints,      \* the points' coordinates <<lng, lat>>
  tdDistorted,   \* the distortedPoints' coordinates
  tdFn,          \* the function called
  tdOut,         \* what the call returned, or the exception it threw
  tdPc           \* "idle" | "call" | "done"

tdVars == <<tdPoints, tdDistorted, tdFn, tdOut, tdPc>>

VARIABLES
  \* generateTensorField
  tfPoints,      \* the source points, normalized positions
  tfDistortions, \* the source points' displacement vectors
  field,         \* the field returned
  tfPc           \* "idle" | "call" | "done"

tensorVars == <<tfPoints, tfDistortions, field, tfPc>>

VARIABLES
  \* TimeDistortionMap: the animation
  animationProgress, \* in thousandths (1000 is 1)
  isAnimating,
  showDistortion,
  previousTimeRef,   \* "null" before the first frame, "set" afterwards
  clicks,            \* button clicks so far
  animEvent,         \* the last event handled and the state it found
  animPc             \* "idle" | "mounted"

animVars == <<animationProgress, isAnimating, showDistortion, previousTimeRef,
              clicks, animEvent, animPc>>

VARIABLES
  \* TimeDistortionMap: the grid.  The values are those of the last render.
  map,               \* "null" | "map"
  gridDensity,
  gridRadius,        \* radius, in twelfths
  distortionFactor,
  statePoints,       \* points
  stateDistorted,    \* distortedPoints
  effectDue,         \* updateGrid changed in the last render: its effect is due
  gridEvent,         \* the last handler run and the lengths it found
  gridPc             \* "idle" | "mounted"

gridVars == <<map, gridDensity, gridRadius, distortionFactor, statePoints,
              stateDistorted, effectDue, gridEvent, gridPc>>

vars == <<streamVars, statVars, isoVars, vorVars, matVars, distortVars, tdVars,
          tensorVars, animVars, gridVars>>

notStream  == <<statVars, isoVars, vorVars, matVars, distortVars, tdVars,
               tensorVars, animVars, gridVars>>
notStats   == <<streamVars, isoVars, vorVars, matVars, distortVars, tdVars,
               tensorVars, animVars, gridVars>>
notIso     == <<streamVars, statVars, vorVars, matVars, distortVars, tdVars,
               tensorVars, animVars, gridVars>>
notVoronoi == <<streamVars, statVars, isoVars, matVars, distortVars, tdVars,
               tensorVars, animVars, gridVars>>
notMatrix  == <<streamVars, statVars, isoVars, vorVars, distortVars, tdVars,
               tensorVars, animVars, gridVars>>
notDistort == <<streamVars, statVars, isoVars, vorVars, matVars, tdVars,
               tensorVars, animVars, gridVars>>
notTd      == <<streamVars, statVars, isoVars, vorVars, matVars, distortVars,
               tensorVars, animVars, gridVars>>
notTensor  == <<streamVars, statVars, isoVars, vorVars, matVars, distortVars,
               tdVars, animVars, gridVars>>

\* The value of the variables of a component that is not exercised.
IdleStream ==
  /\ vectorField = <<>> /\ bounds = <<>> /\ options = <<>> /\ seedIdx = 0
  /\ line = <<>> /\ cur = <<>> /\ step = 0 /\ iters = 0 /\ stop = ""
  /\ streamlines = <<>> /\ integrated = <<>> /\ spc = "idle"

IdleStats ==
  travelTimes = <<>> /\ timeThreshold = 0 /\ called = "" /\ result = <<>>

IdleIso ==
  /\ isoPoints = <<>> /\ timeThresholds = <<>> /\ isoFn = ""
  /\ isoOut = <<>> /\ isoTrace = <<>> /\ isoPc = "idle"

IdleVoronoi ==
  vorPoints = <<>> /\ vorSize = <<>> /\ vorOut = <<>> /\ vorPc = "idle"

IdleMatrix == matPoints = <<>> /\ timeMatrix = <<>> /\ matPc = "idle"

IdleDistort ==
  /\ dPoints = <<>> /\ dMatrix = <<>> /\ dFactor = 0 /\ dOut = <<>>
  /\ dPc = "idle"

IdleTd ==
  /\ tdPoints = <<>> /\ tdDistorted = <<>> /\ tdFn = "" /\ tdOut = <<>>
  /\ tdPc = "idle"

IdleTensor ==
  tfPoints = <<>> /\ tfDistortions = <<>> /\ field = <<>> /\ tfPc = "idle"

notAnim    == <<streamVars, statVars, isoVars, vorVars, matVars, distortVars,
               tdVars, tensorVars, gridVars>>

IdleAnim ==
  /\ animationProgress = 0 /\ isAnimating = FALSE /\ showDistortion = FALSE
  /\ previousTimeRef = "null" /\ clicks = 0 /\ animEvent = <<>>
  /\ animPc = "idle"

notGrid    == <<streamVars, statVars, isoVars, vorVars, matVars, distortVars,
               tdVars, tensorVars, animVars>>

IdleGrid ==
  /\ map = "null" /\ gridDensity = 0 /\ gridRadius = 0 /\ distortionFactor = 0
  /\ statePoints = <<>> /\ stateDistorted = <<>> /\ effectDue = FALSE
  /\ gridEvent = <<>> /\ gridPc = "idle"

-----------------------------------------------------------------------------
(* Generic helpers *)

Abs(n) == IF n < 0 THEN -n ELSE n

Range(s) == {s[k] : k \in DOMAIN s}

RECURSIVE Gcd(_, _)
Gcd(a, b) == IF b = 0 THEN a ELSE Gcd(b, a % b)

\* The integer nearest to n / d (d > 0), a tie going to the even one: the
\* rounding of IEEE-754 arithmetic, here to a whole number of units.
RoundDiv(n, d) ==
  LET q == n \div d
      r == n % d
  IN  IF 2 * r > d THEN q + 1
      ELSE IF 2 * r < d THEN q
      ELSE IF q % 2 = 0 THEN q ELSE q + 1

-----------------------------------------------------------------------------
(* createStreamlines (utils/visualization.ts)                              *)

\* Bounds of the model.
MaxStepSize   == 2
MaxLineLength == 3
MaxStepsBound == 3

\* const seedDensity = 10
seedDensity == 10

\* The default of options.maxSteps.
DefaultMaxSteps == 1000

\* The vectors a field cell may hold: zero, the four axis directions, one of
\* them with magnitude 2 so that the normalisation is exercised.
Dirs == {<<0, 0>>, <<1, 0>>, <<-1, 0>>, <<0, 1>>, <<0, -2>>}

\* Fields of 3 columns by 2 rows.  interpolateVector never reads the last
\* column or the last row, so those cells hold one fixed vector.
FieldSet ==
  {[i \in 0..2 |-> [j \in 0..1 |-> IF i < 2 /\ j < 1 THEN g[i] ELSE <<1, 0>>]] :
     g \in [0..1 -> Dirs]}

\* The uniform field (1, 0).
UniformField == [i \in 0..2 |-> [j \in 0..1 |-> <<1, 0>>]]

\* Bounds rectangles: 20 units wide, so that the seeds fall on integers.
BoundsSet == {<<0, 0, 20, 20>>}

\* Math.sqrt(vector.x * vector.x + vector.y * vector.y), for the vectors of
\* Dirs (whose magnitude is an integer).
Magnitude(v) == CHOOSE m \in 0..(Abs(v[1]) + Abs(v[2])) :
                  m * m = v[1] * v[1] + v[2] * v[2]

\* interpolateVector(x, y): the cell the position falls in, the zero vector
\* outside [0, width-1) x [0, height-1).  Math.floor of a quotient whose
\* divisor is positive is \div.
interpolateVector(x, y) ==
  LET width  == Cardinality(DOMAIN vectorField)
      height == Cardinality(DOMAIN vectorField[0])
      i == ((x - bounds[1]) * (width - 1)) \div (bounds[3] - bounds[1])
      j == ((y - bounds[2]) * (height - 1)) \div (bounds[4] - bounds[2])
  IN  IF i < 0 \/ i >= width - 1 \/ j < 0 \/ j >= height - 1
        THEN <<0, 0>>
        ELSE vectorField[i][j]

\* Mutant of outOfBounds: only the x range is tested.
outOfBoundsX(x, y) == x < bounds[1] \/ x > bounds[3]

\* x < bounds[0] || x > bounds[2] || y < bounds[1] || y > bounds[3]
outOfBounds(x, y) ==
  x < bounds[1] \/ x > bounds[3] \/ y < bounds[2] \/ y > bounds[4]

\* Mutants of lengthExceeded: the test made on the arc length (points - 1),
\* the test made with >=, and the test made against twice the lineLength.
lengthExceededArc(n) == (n - 1) * options.stepSize > options.lineLength

lengthExceededGe(n) == n * options.stepSize >= options.lineLength

lengthExceededTwice(n) == n * options.stepSize > 2 * options.lineLength

\* line.length * stepSize > lineLength
lengthExceeded(n) == n * options.stepSize > options.lineLength

\* The position after one step of integrateLine from <<x, y>> along v:
\* x += (vector.x / magnitude) * stepSize, the same for y.
advance(x, y, v) ==
  <<x + (v[1] \div Magnitude(v)) * options.stepSize,
    y + (v[2] \div Magnitude(v)) * options.stepSize>>

\* seedPoints[k], k = i * seedDensity + j:
\* bounds[0] + (bounds[2] - bounds[0]) * (i + 0.5) / seedDensity, the same for y.
seedPoint(k) ==
  LET i == k \div seedDensity
      j == k % seedDensity
  IN  <<bounds[1] + ((bounds[3] - bounds[1]) * (2 * i + 1)) \div (2 * seedDensity),
        bounds[2] + ((bounds[4] - bounds[2]) * (2 * j + 1)) \div (2 * seedDensity)>>

NumSeeds == seedDensity * seedDensity

\* The state in which integrateLine(seedPoint(k)) starts.
StartLine(k) ==
  /\ seedIdx' = k
  /\ line' = <<seedPoint(k)>>
  /\ cur' = seedPoint(k)
  /\ step' = 0
  /\ iters' = 0
  /\ stop' = ""
  /\ spc' = "loop"

\* One pass through the body of integrateLine's for loop.
LoopBody ==
  /\ spc = "loop"
  /\ step < options.maxSteps
  /\ iters' = iters + 1
  /\ LET vector == interpolateVector(cur[1], cur[2])
         next   == advance(cur[1], cur[2], vector)
     IN  IF Magnitude(vector) = 0
           THEN /\ stop' = "stagnation" /\ spc' = "return"
                /\ UNCHANGED <<line, cur, step>>
         ELSE IF outOfBounds(next[1], next[2])
           THEN /\ stop' = "bounds" /\ spc' = "return"
                /\ cur' = next
                /\ UNCHANGED <<line, step>>
         ELSE IF lengthExceeded(Len(line) + 1)
           THEN /\ stop' = "length" /\ spc' = "return"
                /\ cur' = next
                /\ line' = Append(line, next)
                /\ UNCHANGED step
         ELSE /\ cur' = next
              /\ line' = Append(line, next)
              /\ step' = step + 1
              /\ UNCHANGED <<stop, spc>>
  /\ UNCHANGED <<vectorField, bounds, options, seedIdx, streamlines, integrated>>
  /\ UNCHANGED notStream

\* The loop condition step < maxSteps fails.
LoopExit ==
  /\ spc = "loop"
  /\ ~(step < options.maxSteps)
  /\ stop' = "maxSteps"
  /\ spc' = "return"
  /\ UNCHANGED <<vectorField, bounds, options, seedIdx, line, cur, step, iters,
                 streamlines, integrated>>
  /\ UNCHANGED notStream

\* Mutant of keepLine: every line is kept.
keepLineAny(l) == TRUE

\* line.length > 1
keepLine(l) == Len(l) > 1

\* integrateLine returns; the forEach callback keeps the line if it has more
\* than one point and goes to the next seed.
ReturnLine ==
  /\ spc = "return"
  /\ streamlines' = IF keepLine(line) THEN Append(streamlines, line)
                                      ELSE streamlines
  /\ integrated' = Append(integrated, line)
  /\ IF seedIdx + 1 < NumSeeds
       THEN StartLine(seedIdx + 1)
       ELSE /\ spc' = "done"
            /\ UNCHANGED <<seedIdx, line, cur, step, iters, stop>>
  /\ UNCHANGED <<vectorField, bounds, options>>
  /\ UNCHANGED notStream

\* createStreamlines is called: the seeds are laid out and the first
\* integrateLine starts.  Either the arguments come from the bounded sets, or
\* they are those of the uniform-field scenario (stepSize 0.1 and lineLength 1
\* in units of 0.1, maxSteps at its default).
InitStream ==
  /\ \/ /\ vectorField \in FieldSet
        /\ bounds \in BoundsSet
        /\ options \in [stepSize : 1..MaxStepSize,
                        maxSteps : 0..MaxStepsBound,
                        lineLength : 0..MaxLineLength]
     \/ /\ vectorField = UniformField
        /\ bounds \in BoundsSet
        /\ options = [stepSize |-> 1, maxSteps |-> DefaultMaxSteps,
                      lineLength |-> 10]
  /\ seedIdx = 0
  /\ line = <<seedPoint(0)>>
  /\ cur = seedPoint(0)
  /\ step = 0
  /\ iters = 0
  /\ stop = ""
  /\ streamlines = <<>>
  /\ integrated = <<>>
  /\ spc = "loop"
  /\ IdleStats /\ IdleIso /\ IdleVoronoi /\ IdleMatrix /\ IdleDistort /\ IdleTd
  /\ IdleTensor
  /\ IdleAnim /\ IdleGrid

NextStream == LoopBody \/ LoopExit \/ ReturnLine

SpecStream == InitStream /\ [][NextStream]_vars

-----------------------------------------------------------------------------
(* JavaScript numbers as far as the normalisations need them: a quotient   *)
(* n/d of integers with d > 0, NaN, or an infinity.                        *)

NaN == [kind |-> "NaN"]

Infinity == [kind |-> "Infinity"]

NegInfinity == [kind |-> "-Infinity"]

Num(n, d) == [kind |-> "num", n |-> n, d |-> d]

\* a / b for integers a and b: 0/0 is NaN, x/0 an infinity; the denominator
\* of a quotient is kept positive.
JsDiv(a, b) ==
  IF b = 0 THEN (IF a = 0 THEN NaN ELSE IF a > 0 THEN Infinity ELSE NegInfinity)
  ELSE IF b < 0 THEN Num(-a, -b)
  ELSE Num(a, b)

IsZero(v) == v.kind = "num" /\ v.n = 0

IsFinite(v) == v.kind = "num"

\* Math.max(...xs), Math.min(...xs) of a non-empty set of integers.
SetMax(S) == CHOOSE m \in S : \A x \in S : x <= m

SetMin(S) == CHOOSE m \in S : \A x \in S : m <= x

-----------------------------------------------------------------------------
(* utils/statistical.ts and Layers.tsx: the functions of travelTime alone  *)

\* Bound of the model: the longest point list.
MaxStatPoints == 3

\* The absent travelTime field (a travelTime that is present is >= 0).
None == -1

\* The values a travelTime takes, and the timeThreshold arguments (20 is the
\* default).
TimeVals == {None, 0, 5, 20, 30}

DefaultThreshold == 20

ThresholdVals == {DefaultThreshold, 0}

\* p.travelTime || 0
TimeOf(t) == IF t = None THEN 0 ELSE t

\* points.map(p => p.travelTime || 0)
Times(ts) == [k \in DOMAIN ts |-> TimeOf(ts[k])]

\* Mutant of normalize: divided by maxTime instead of the spread.
normalizeByMax(time, minTime, maxTime) == JsDiv(time - minTime, maxTime)

\* (time - minTime) / (maxTime - minTime)
normalize(time, minTime, maxTime) == JsDiv(time - minTime, maxTime - minTime)

\* generateHeatmapData(points): one {coordinates, intensity} per point (the
\* coordinates are copied and are left out here).
generateHeatmapData(ts) ==
  IF ts = <<>> THEN <<>>
  ELSE LET maxTime == SetMax(Range(Times(ts)))
           minTime == SetMin(Range(Times(ts)))
       IN  [k \in DOMAIN ts |->
              [intensity |-> normalize(TimeOf(ts[k]), minTime, maxTime)]]

\* 240 - (normalizedTime * 240), the hue of the colour string: NaN and the
\* infinities propagate.
hue(v) == IF v.kind = "num" THEN Num(240 * v.d - 240 * v.n, v.d)
          ELSE IF v.kind = "NaN" THEN NaN
          ELSE IF v.kind = "Infinity" THEN NegInfinity ELSE Infinity

\* HeatmapLayer's heatmapData, for points and distortedPoints of one length:
\* ts are the distortedPoints' travelTime.
HeatmapLayer(ts) ==
  IF ts = <<>> THEN <<>>
  ELSE LET maxTime == SetMax(Range(Times(ts)))
           minTime == SetMin(Range(Times(ts)))
       IN  [k \in DOMAIN ts |->
              LET normalizedTime == normalize(TimeOf(ts[k]), minTime, maxTime)
              IN  [normalizedTime |-> normalizedTime,
                   hue |-> hue(normalizedTime)]]

\* Mutant of calculateConnectivity: a time equal to the threshold counts.
calculateConnectivityLe(ts, threshold) ==
  [i \in DOMAIN ts |->
     Cardinality({j \in DOMAIN ts : j # i /\ TimeOf(ts[j]) <= threshold})]

\* calculateConnectivity(points, timeThreshold): for each i the number of
\* j # i with (p.travelTime || 0) < timeThreshold.
calculateConnectivity(ts, threshold) ==
  [i \in DOMAIN ts |->
     Cardinality({j \in DOMAIN ts : j # i /\ TimeOf(ts[j]) < threshold})]

\* findCentralPoints(points, timeThreshold)
findCentralPoints(ts, threshold) ==
  IF ts = <<>> THEN <<>>
  ELSE LET connectivity == calculateConnectivity(ts, threshold)
           maxConnectivity == SetMax(Range(connectivity))
       IN  [i \in DOMAIN ts |-> JsDiv(connectivity[i], maxConnectivity)]

\* NetworkLayer's networkData, for points and distortedPoints of one length:
\* ts are the distortedPoints' travelTime.  The filter callback runs over the
\* indices j of distortedPoints and reads distortedPoints[i].travelTime.
NetworkLayer(ts) ==
  [i \in DOMAIN ts |->
     LET nearbyPoints ==
           Cardinality({j \in DOMAIN ts : j # i /\ TimeOf(ts[i]) < 20})
     IN  [size |-> 50 + nearbyPoints * 10, connections |-> nearbyPoints]]

CallNetworkLayer ==
  /\ called = ""
  /\ called' = "NetworkLayer"
  /\ result' = NetworkLayer(travelTimes)
  /\ UNCHANGED <<travelTimes, timeThreshold>>
  /\ UNCHANGED notStats

CallGenerateHeatmapData ==
  /\ called = ""
  /\ called' = "generateHeatmapData"
  /\ result' = generateHeatmapData(travelTimes)
  /\ UNCHANGED <<travelTimes, timeThreshold>>
  /\ UNCHANGED notStats

CallHeatmapLayer ==
  /\ called = ""
  /\ called' = "HeatmapLayer"
  /\ result' = HeatmapLayer(travelTimes)
  /\ UNCHANGED <<travelTimes, timeThreshold>>
  /\ UNCHANGED notStats

CallCalculateConnectivity ==
  /\ called = ""
  /\ called' = "calculateConnectivity"
  /\ result' = calculateConnectivity(travelTimes, timeThreshold)
  /\ UNCHANGED <<travelTimes, timeThreshold>>
  /\ UNCHANGED notStats

CallFindCentralPoints ==
  /\ called = ""
  /\ called' = "findCentralPoints"
  /\ result' = findCentralPoints(travelTimes, timeThreshold)
  /\ UNCHANGED <<travelTimes, timeThreshold>>
  /\ UNCHANGED notStats

\* All sequences over S of length at most n.
SeqsUpTo(S, n) == UNION {[1..m -> S] : m \in 0..n}

InitStats ==
  /\ travelTimes \in SeqsUpTo(TimeVals, MaxStatPoints)
  /\ timeThreshold \in ThresholdVals
  /\ called = ""
  /\ result = <<>>
  /\ IdleStream /\ IdleIso /\ IdleVoronoi /\ IdleMatrix /\ IdleDistort /\ IdleTd
  /\ IdleTensor
  /\ IdleAnim /\ IdleGrid

NextStats ==
  \/ CallGenerateHeatmapData
  \/ CallHeatmapLayer
  \/ CallCalculateConnectivity
  \/ CallFindCentralPoints
  \/ CallNetworkLayer

SpecStats == InitStats /\ [][NextStats]_vars

-----------------------------------------------------------------------------
(* calculateIsochrones, calculateAreaCoverage (utils/statistical.ts)       *)
(*                                                                         *)
(* Coordinates are points of an integer lattice; a coordinate pair may     *)
(* hold NaN (nan = TRUE), which turf.points rejects with an exception.     *)
(* turf.convex is the convex hull, null when the hull is degenerate (fewer *)
(* than 3 corners).  Areas are twice the planar area, in lattice units:    *)
(* turf.area and the factor 3.861e-7 scale it by positive constants.       *)

\* Bound of the model: the longest point list.
MaxIsoPoints == 4

\* The coordinates of the k-th point of the list.
Sites == <<<<0, 0>>, <<2, 0>>, <<1, 1>>, <<2, 2>>, <<0, 2>>, <<1, 2>>>>

\* The travelTime values, and the threshold lists.
IsoTimeVals == {None, 5, 15, 25}

ThresholdLists == {<<20>>, <<30, 10>>, <<10, 20, 30>>}

\* The point lists: the first n sites, each with a travelTime; at most one
\* point (the b-th, none when b = 0) has NaN coordinates.
IsoPointLists ==
  UNION {
    {[k \in 1..n |-> [coordinates |-> [x |-> Sites[k][1], y |-> Sites[k][2],
                                       nan |-> (k = b)],
                      travelTime |-> t[k]]] :
       t \in [1..n -> IsoTimeVals], b \in 0..n} :
    n \in 0..MaxIsoPoints}

\* (q - p) x (r - p)
Cross(p, q, r) ==
  (q[1] - p[1]) * (r[2] - p[2]) - (q[2] - p[2]) * (r[1] - p[1])

\* r lies on the closed segment from p to q (r being on the line through them).
Between(p, q, r) ==
  /\ (r[1] - p[1]) * (r[1] - q[1]) <= 0
  /\ (r[2] - p[2]) * (r[2] - q[2]) <= 0

\* The directed edges of the convex hull of S, counter-clockwise: every point
\* of S is on the left of the edge or on it, between its ends.
HullEdges(S) ==
  {e \in S \X S :
     /\ e[1] # e[2]
     /\ \A r \in S : \/ Cross(e[1], e[2], r) > 0
                     \/ Cross(e[1], e[2], r) = 0 /\ Between(e[1], e[2], r)}

\* The corners of the hull.
HullCorners(S) == {e[1] : e \in HullEdges(S)}

\* Twice the area of the hull (the shoelace sum over its edges).
HullArea2(S) ==
  LET E == HullEdges(S)
      RECURSIVE Sum(_)
      Sum(F) == IF F = {} THEN 0
                ELSE LET e == CHOOSE e \in F : TRUE
                     IN  (e[1][1] * e[2][2] - e[2][1] * e[1][2]) + Sum(F \ {e})
  IN  Sum(E)

\* The hull as a closed ring: from its lowest-leftmost corner around and back.
HullRing(S) ==
  LET E == HullEdges(S)
      C == HullCorners(S)
      first == CHOOSE c \in C : \A d \in C :
                 c[2] < d[2] \/ (c[2] = d[2] /\ c[1] <= d[1])
      succ(c) == (CHOOSE e \in E : e[1] = c)[2]
      RECURSIVE Walk(_, _)
      Walk(c, n) == IF n = 0 THEN <<c>> ELSE <<c>> \o Walk(succ(c), n - 1)
  IN  Walk(first, Cardinality(C))

\* Mutant of accessible: the comparison reversed.
RECURSIVE accessibleAbove(_, _)
accessibleAbove(points, threshold) ==
  IF points = <<>> THEN <<>>
  ELSE (IF TimeOf(Head(points).travelTime) >= threshold
          THEN <<Head(points)>> ELSE <<>>)
       \o accessibleAbove(Tail(points), threshold)

\* points.filter(point => (point.travelTime || 0) <= threshold)
RECURSIVE accessible(_, _)
accessible(points, threshold) ==
  IF points = <<>> THEN <<>>
  ELSE (IF TimeOf(Head(points).travelTime) <= threshold
          THEN <<Head(points)>> ELSE <<>>)
       \o accessible(Tail(points), threshold)

\* Mutant of tooFew: a hull is tried with 2 points.
tooFewTwo(n) == n < 2

\* accessiblePoints.length < 3
tooFew(n) == n < 3

\* The try block up to the hull: turf.points throws on a coordinate that is
\* not a number; turf.convex returns null for a degenerate hull.
hullAttempt(acc) ==
  LET S == {<<acc[k].coordinates.x, acc[k].coordinates.y>> : k \in DOMAIN acc}
  IN  IF \E k \in DOMAIN acc : acc[k].coordinates.nan
        THEN [kind |-> "throw"]
      ELSE IF Cardinality(HullCorners(S)) < 3
        THEN [kind |-> "null"]
      ELSE [kind |-> "hull", ring |-> HullRing(S), area2 |-> HullArea2(S)]

\* Mutant of isoCatch: no catch block, the exception leaves the function.
isoCatchNone(threshold, attempt) ==
  IF attempt.kind = "throw" THEN [exception |-> TRUE]
  ELSE IF attempt.kind = "null" THEN [threshold |-> threshold, coordinates |-> <<>>]
  ELSE [threshold |-> threshold, coordinates |-> attempt.ring]

\* The rest of calculateIsochrones' try / catch: the catch block and the
\* null tests give the empty ring, a hull gives the ring of its buffer (the
\* buffer's ring is represented by the hull ring it is grown from).
isoCatch(threshold, attempt) ==
  IF attempt.kind = "throw" THEN [threshold |-> threshold, coordinates |-> <<>>]
  ELSE IF attempt.kind = "null" THEN [threshold |-> threshold, coordinates |-> <<>>]
  ELSE [threshold |-> threshold, coordinates |-> attempt.ring]

\* The callback of calculateIsochrones' map, for one threshold.
isochroneBand(points, threshold) ==
  LET accessiblePoints == accessible(points, threshold)
  IN  IF tooFew(Len(accessiblePoints))
        THEN [threshold |-> threshold, coordinates |-> <<>>]
        ELSE isoCatch(threshold, hullAttempt(accessiblePoints))

\* calculateAreaCoverage(points, timeThreshold)
calculateAreaCoverage(points, threshold) ==
  LET accessiblePoints == accessible(points, threshold)
      attempt == hullAttempt(accessiblePoints)
  IN  IF tooFew(Len(accessiblePoints)) THEN 0
      ELSE IF attempt.kind = "throw" THEN 0
      ELSE IF attempt.kind = "null" THEN 0
      ELSE attempt.area2

\* What happened inside the call for one threshold: whether the try block was
\* entered, on which points, and how the hull step ended.
traceOf(points, threshold) ==
  LET accessiblePoints == accessible(points, threshold)
  IN  IF tooFew(Len(accessiblePoints))
        THEN [attempted |-> FALSE, outcome |-> "none", source |-> accessiblePoints]
        ELSE [attempted |-> TRUE, outcome |-> hullAttempt(accessiblePoints).kind,
              source |-> accessiblePoints]

\* calculateIsochrones handles the next threshold of the list.
MapThreshold ==
  /\ isoPc = "map" /\ isoFn = "isochrones"
  /\ LET k == Len(isoOut) + 1
         band == isochroneBand(isoPoints, timeThresholds[k])
     IN  IF "exception" \in DOMAIN band
           THEN /\ isoPc' = "thrown"
                /\ UNCHANGED <<isoOut, isoTrace>>
           ELSE /\ isoOut' = Append(isoOut, band)
                /\ isoTrace' = Append(isoTrace, traceOf(isoPoints, timeThresholds[k]))
                /\ isoPc' = IF k = Len(timeThresholds) THEN "done" ELSE "map"
  /\ UNCHANGED <<isoPoints, timeThresholds, isoFn>>
  /\ UNCHANGED notIso

\* calculateAreaCoverage is called with the next threshold of the list.
CallAreaCoverage ==
  /\ isoPc = "map" /\ isoFn = "coverage"
  /\ LET k == Len(isoOut) + 1
     IN  /\ isoOut' = Append(isoOut, calculateAreaCoverage(isoPoints, timeThresholds[k]))
         /\ isoTrace' = Append(isoTrace, traceOf(isoPoints, timeThresholds[k]))
         /\ isoPc' = IF k = Len(timeThresholds) THEN "done" ELSE "map"
  /\ UNCHANGED <<isoPoints, timeThresholds, isoFn>>
  /\ UNCHANGED notIso

InitIso ==
  /\ isoPoints \in IsoPointLists
  /\ timeThresholds \in ThresholdLists
  /\ isoFn \in {"isochrones", "coverage"}
  /\ isoOut = <<>>
  /\ isoTrace = <<>>
  /\ isoPc = "map"
  /\ IdleStream /\ IdleStats /\ IdleVoronoi /\ IdleMatrix /\ IdleDistort /\ IdleTd
  /\ IdleTensor
  /\ IdleAnim /\ IdleGrid

NextIso == MapThreshold \/ CallAreaCoverage

SpecIso == InitIso /\ [][NextIso]_vars

-----------------------------------------------------------------------------
(* generateVoronoi (utils/visualization.ts)                                *)
(*                                                                         *)
(* voronoi.cellPolygon(i) is the Voronoi region of site i cut to the       *)
(* rectangle [0, width] x [0, height], null when nothing of the region is  *)
(* inside.  The region is the set of p with |p - s_i| <= |p - s_j| for all *)
(* j, an intersection of half-planes a*x + b*y <= c with integer a, b, c;  *)
(* its corners are computed exactly, as fractions <<nx, ny, d>> (the point *)
(* (nx/d, ny/d), d > 0).  The sites of a list are pairwise distinct.       *)

\* Bound of the model: the longest site list.
MaxVorPoints == 3

\* The lattice the sites are on, and the clip rectangles <<width, height>>.
VorLattice == {0, 1, 2, 6} \X {0, 1, 2}

VorSizes == {<<2, 2>>}

VorPointLists ==
  {ps \in SeqsUpTo(VorLattice, MaxVorPoints) :
     \A i, j \in DOMAIN ps : i # j => ps[i] # ps[j]}

\* The 4 corners of the unit square, with the clip rectangle (0, 0, 1, 1).
UnitSquareCorners == <<<<0, 0>>, <<1, 0>>, <<1, 1>>, <<0, 1>>>>

\* Mutant of HalfPlanes: the bisectors are drawn through the other site
\* instead of half way.
HalfPlanesThroughSite(ps, size, i) ==
  {<<-1, 0, 0>>, <<1, 0, size[1]>>, <<0, -1, 0>>, <<0, 1, size[2]>>}
  \cup {<<ps[j][1] - ps[i][1], ps[j][2] - ps[i][2],
          (ps[j][1] - ps[i][1]) * ps[j][1] + (ps[j][2] - ps[i][2]) * ps[j][2]>> :
          j \in DOMAIN ps \ {i}}

\* The half-planes <<a, b, c>> (a*x + b*y <= c) that bound cell i: the four
\* sides of the rectangle and the bisector with every other site.
HalfPlanes(ps, size, i) ==
  {<<-1, 0, 0>>, <<1, 0, size[1]>>, <<0, -1, 0>>, <<0, 1, size[2]>>}
  \cup {<<2 * (ps[j][1] - ps[i][1]), 2 * (ps[j][2] - ps[i][2]),
          ps[j][1] * ps[j][1] + ps[j][2] * ps[j][2]
          - ps[i][1] * ps[i][1] - ps[i][2] * ps[i][2]>> :
          j \in DOMAIN ps \ {i}}

\* The corners of cell i: the points where two boundary lines cross that
\* satisfy every half-plane.
CellCorners(ps, size, i) ==
  LET H == HalfPlanes(ps, size, i)
      Det(g, h) == g[1] * h[2] - g[2] * h[1]
      Pt(g, h) ==
        LET d  == Det(g, h)
            nx == g[3] * h[2] - g[2] * h[3]
            ny == g[1] * h[3] - g[3] * h[1]
            g3 == Gcd(Gcd(Abs(nx), Abs(ny)), Abs(d))
        IN  IF d > 0 THEN <<nx \div g3, ny \div g3, d \div g3>>
                     ELSE <<(-nx) \div g3, (-ny) \div g3, (-d) \div g3>>
      Inside(q) == \A f \in H : f[1] * q[1] + f[2] * q[2] <= f[3] * q[3]
  IN  {Pt(e[1], e[2]) : e \in {e \in H \X H : Det(e[1], e[2]) # 0 /\
                                 Inside(Pt(e[1], e[2]))}}

\* voronoi.cellPolygon(i), and the callback of Array.from: the ring of the
\* cell, [] when there is none (a ring is kept as the sequence of its corners,
\* here as their set; the empty ring is {}).
cellPolygon(ps, size, i) == CellCorners(ps, size, i)

\* Mutant of keepCells: every ring is kept.
keepAll(rings) == rings

\* .filter(cell => cell.length > 0)
keepCells(rings) == SelectSeq(rings, LAMBDA cell : cell # {})

\* generateVoronoi(points, width, height)
generateVoronoi(ps, size) ==
  keepCells([i \in DOMAIN ps |-> cellPolygon(ps, size, i)])

CallGenerateVoronoi ==
  /\ vorPc = "call"
  /\ vorOut' = generateVoronoi(vorPoints, vorSize)
  /\ vorPc' = "done"
  /\ UNCHANGED <<vorPoints, vorSize>>
  /\ UNCHANGED notVoronoi

\* generateVoronoi is called, with arguments of the bounded sets or with those
\* of the unit-square scenario.
InitVoronoi ==
  /\ \/ /\ vorPoints \in VorPointLists
        /\ vorSize \in VorSizes
     \/ /\ vorPoints = UnitSquareCorners
        /\ vorSize = <<1, 1>>
  /\ vorOut = <<>>
  /\ vorPc = "call"
  /\ IdleStream /\ IdleStats /\ IdleIso /\ IdleMatrix /\ IdleDistort /\ IdleTd
  /\ IdleTensor
  /\ IdleAnim /\ IdleGrid

NextVoronoi == CallGenerateVoronoi

SpecVoronoi == InitVoronoi /\ [][NextVoronoi]_vars

-----------------------------------------------------------------------------
(* distortPoints (components/Map/TimeDistortionMap.tsx)                    *)
(*                                                                         *)
(* Coordinates are doubles.  At the magnitude of the coordinates the       *)
(* doubles are evenly spaced; the model counts coordinates in units of     *)
(* that spacing, so a coordinate is an integer and the sum                 *)
(*   point.coordinates[0] + Math.cos(direction) * scaleFactor              *)
(* is the exact sum rounded to the nearest integer (RoundDiv).  The offset *)
(* Math.cos(direction) * scaleFactor itself is much smaller than the       *)
(* coordinate and is carried to a far finer spacing; the model keeps it as *)
(* an exact fraction.  Times are whole minutes.                            *)

\* Bounds of the model: the longest point list, the largest factor k.
MaxDistortPoints == 3
MaxFactor == 2

\* Units of coordinate spacing per degree, and the denominator of the values
\* of Math.cos and Math.sin.
UnitsPerDegree == 16
TrigScale == 1024

\* The lattice of the points' coordinates and the travel times of the matrix.
DistortLattice == {0, 8} \X {0, 8}

MatrixTimes == {3, 10}

\* The lists generateGrid makes: the points of a grid (no two at the same
\* place), ids point-0, point-1, ... in list order, originalCoordinates equal
\* to coordinates.
GridPointLists ==
  UNION {
    {[k \in 1..n |-> [id |-> k - 1, coordinates |-> c[k],
                      originalCoordinates |-> c[k]]] :
       c \in {f \in [1..n -> DistortLattice] :
                \A a, b \in 1..n : a # b => f[a] # f[b]}} :
    n \in 1..MaxDistortPoints}

\* The time matrices of n points: zero diagonal, one time per pair.
TimeMatrices(n) ==
  {[i \in 1..n |-> [j \in 1..n |->
      IF i = j THEN 0 ELSE IF i < j THEN m[<<i, j>>] ELSE m[<<j, i>>]]] :
     m \in [{e \in (1..n) \X (1..n) : e[1] < e[2]} -> MatrixTimes]}

\* The whole part of the square root of n (n <= TrigScale^2).
Isqrt(n) == CHOOSE r \in 0..TrigScale : r * r <= n /\ n < (r + 1) * (r + 1)

\* Math.cos(Math.atan2(dy, dx)) and Math.sin(Math.atan2(dy, dx)), as
\* numerators over TrigScale.  atan2(0, 0) is 0: cos 1, sin 0.
CosNum(dx, dy) ==
  IF dx = 0 /\ dy = 0 THEN TrigScale
  ELSE LET r == Isqrt((TrigScale * TrigScale * dx * dx) \div (dx * dx + dy * dy))
       IN  IF dx < 0 THEN -r ELSE r

SinNum(dx, dy) ==
  IF dx = 0 /\ dy = 0 THEN 0
  ELSE LET r == Isqrt((TrigScale * TrigScale * dy * dy) \div (dx * dx + dy * dy))
       IN  IF dy < 0 THEN -r ELSE r

\* timeMatrix[i].reduce((a, b) => a + b, 0)
RECURSIVE RowSum(_)
RowSum(row) == IF row = <<>> THEN 0 ELSE Head(row) + RowSum(Tail(row))

\* Mutant of scaleNum: the factor added instead of multiplied.
scaleNumAdd(sum, factor) == sum + factor

\* The numerator of scaleFactor = (avgTime / 60) * distortionFactor, over the
\* denominator points.length * 60 (avgTime is sum / points.length).
scaleNum(sum, factor) == sum * factor

\* The offset Math.cos(direction) * scaleFactor (and the one with Math.sin) of
\* point i, in units of coordinate spacing, as numerators over offsetDen.
offsetNum(points, matrix, factor, i) ==
  LET dx == points[i].coordinates[1] - points[1].coordinates[1]
      dy == points[i].coordinates[2] - points[1].coordinates[2]
      sc == scaleNum(RowSum(matrix[i]), factor)
  IN  <<CosNum(dx, dy) * sc * UnitsPerDegree, SinNum(dx, dy) * sc * UnitsPerDegree>>

offsetDen(points) == TrigScale * Len(points) * 60

\* Mutant of distortPoints: originalCoordinates overwritten with the distorted
\* coordinates.
distortPointsShifted(points, matrix, factor) ==
  [i \in DOMAIN points |->
     LET off == offsetNum(points, matrix, factor, i)
         den == offsetDen(points)
         moved == <<points[i].coordinates[1] + RoundDiv(off[1], den),
                    points[i].coordinates[2] + RoundDiv(off[2], den)>>
     IN  [id |-> points[i].id,
          originalCoordinates |-> moved,
          coordinates |-> moved,
          travelTime |-> JsDiv(RowSum(matrix[i]), Len(points))]]

\* distortPoints(points, timeMatrix, distortionFactor)
distortPoints(points, matrix, factor) ==
  [i \in DOMAIN points |->
     LET off == offsetNum(points, matrix, factor, i)
         den == offsetDen(points)
     IN  [id |-> points[i].id,
          originalCoordinates |-> points[i].originalCoordinates,
          coordinates |-> <<points[i].coordinates[1] + RoundDiv(off[1], den),
                            points[i].coordinates[2] + RoundDiv(off[2], den)>>,
          travelTime |-> JsDiv(RowSum(matrix[i]), Len(points))]]

\* distortPoints(points, timeMatrix) of utils/distortion.ts: the offset is
\* Math.cos(direction) * (avgTime / 60), that of factor 1, and the point is
\* spread into the result with new coordinates only.
distortPointsUtils(points, matrix) ==
  [i \in DOMAIN points |->
     LET off == offsetNum(points, matrix, 1, i)
         den == offsetDen(points)
     IN  [id |-> points[i].id,
          originalCoordinates |-> points[i].originalCoordinates,
          coordinates |-> <<points[i].coordinates[1] + RoundDiv(off[1], den),
                            points[i].coordinates[2] + RoundDiv(off[2], den)>>]]

\* One call of distortPoints on the fixed list and matrix, with factor f.  The
\* offsets of the call are recorded beside its result.
CallDistort(f, nextPc) ==
  /\ dOut' = Append(dOut,
        [fn |-> "TimeDistortionMap",
         factor |-> f,
         points |-> distortPoints(dPoints, dMatrix, f),
         offsets |-> [i \in DOMAIN dPoints |-> offsetNum(dPoints, dMatrix, f, i)]])
  /\ dPc' = nextPc
  /\ UNCHANGED <<dPoints, dMatrix, dFactor>>
  /\ UNCHANGED notDistort

DistortAtK == dPc = "k" /\ CallDistort(dFactor, "2k")

DistortAt2K == dPc = "2k" /\ CallDistort(2 * dFactor, "zero")

DistortAtZero == dPc = "zero" /\ CallDistort(0, "utils")

\* One call of the distortPoints of utils/distortion.ts on the same list and
\* matrix.
CallDistortUtils ==
  /\ dPc = "utils"
  /\ dOut' = Append(dOut,
        [fn |-> "utils/distortion",
         factor |-> 1,
         points |-> distortPointsUtils(dPoints, dMatrix),
         offsets |-> [i \in DOMAIN dPoints |-> offsetNum(dPoints, dMatrix, 1, i)]])
  /\ dPc' = "done"
  /\ UNCHANGED <<dPoints, dMatrix, dFactor>>
  /\ UNCHANGED notDistort

InitDistort ==
  /\ dPoints \in GridPointLists
  /\ dMatrix \in TimeMatrices(Len(dPoints))
  /\ dFactor \in 1..MaxFactor
  /\ dOut = <<>>
  /\ dPc = "k"
  /\ IdleStream /\ IdleStats /\ IdleIso /\ IdleVoronoi /\ IdleMatrix /\ IdleTd
  /\ IdleTensor
  /\ IdleAnim /\ IdleGrid

NextDistort == DistortAtK \/ DistortAt2K \/ DistortAtZero \/ CallDistortUtils

SpecDistort == InitDistort /\ [][NextDistort]_vars

-----------------------------------------------------------------------------
(* generateTimeMatrix (components/Map/TimeDistortionMap.tsx)               *)
(*                                                                         *)
(* Every entry is its own turf.distance call, a haversine evaluated in     *)
(* floating point on the pair in the order given:                          *)
(*   a = sin(dLat/2)^2 + sin(dLon/2)^2 * cos(lat1) * cos(lat2)             *)
(*   distance = 2 * atan2(sqrt(a), sqrt(1 - a)) * radius                   *)
(* The model keeps the operations and their order and shortens the         *)
(* significand: a number is an integer count of 1/FixDen with at most      *)
(* SigBits significant bits, and every operation rounds its exact result   *)
(* to the nearest such number, ties to even.  Coordinates are whole        *)
(* degrees; distances and times are whole miles and minutes.               *)

\* Bound of the model: the longest point list.
MaxMatPoints == 3

\* Significant bits of a number, and the denominator of the fractions.
SigBits == 5
FixDen == 4096

\* The degrees of the points' longitudes and latitudes.
Degrees == {0, 20, 40}

MatSites == Degrees \X Degrees

MatPointLists ==
  UNION {[1..n -> [coordinates : MatSites]] : n \in 1..MaxMatPoints}

RECURSIVE Pow2(_)
Pow2(e) == IF e = 0 THEN 1 ELSE 2 * Pow2(e - 1)

\* The number nearest n / d (n >= 0, d > 0) with at most SigBits significant
\* bits.
RoundSig(n, d) ==
  IF n = 0 THEN 0
  ELSE LET e == CHOOSE x \in 0..12 :
                  /\ n < Pow2(SigBits + x) * d
                  /\ x = 0 \/ n >= Pow2(SigBits + x - 1) * d
       IN  RoundDiv(n, d * Pow2(e)) * Pow2(e)

\* Floating-point product and sum of two fractions over FixDen.
FMul(a, b) == RoundSig(a * b, FixDen)

FAdd(a, b) == RoundSig(a + b, 1)

\* Math.cos(degreesToRadians(lat)), over FixDen.
CosTable == (0 :> 4096) @@ (20 :> 3840) @@ (40 :> 3200)

\* Math.pow(Math.sin(degreesToRadians(d) / 2), 2), over FixDen.
SinSqTable == (0 :> 0) @@ (20 :> 124) @@ (40 :> 480)

\* 2 * Math.atan2(Math.sqrt(a), Math.sqrt(1 - a)), over FixDen, at the values
\* of a the lattice produces.
AngleTable ==
  (0 :> 0) @@ (76 :> 1088) @@ (108 :> 1344) @@ (124 :> 1408) @@
  (208 :> 1856) @@ (216 :> 1920) @@ (240 :> 1984) @@ (288 :> 2176) @@
  (416 :> 2688) @@ (480 :> 2816) @@ (576 :> 3200) @@ (832 :> 3840)

\* The earth's radius in miles (3958.76) as a number of SigBits bits.
RadiusMiles == 3968

\* The haversine a of the pair (c1, c2): the product is taken left to right,
\* with the first point's latitude first.
haversine(c1, c2) ==
  FAdd(SinSqTable[Abs(c2[2] - c1[2])],
       FMul(FMul(SinSqTable[Abs(c2[1] - c1[1])], CosTable[c1[2]]), CosTable[c2[2]]))

\* turf.distance(c1, c2, { units: 'miles' })
distance(c1, c2) == RoundSig(AngleTable[haversine(c1, c2)] * RadiusMiles, FixDen)

\* (distance / 30) * 60
travelMinutes(d) == RoundSig(RoundSig(d, 30) * 60, 1)

\* generateTimeMatrix(points)
generateTimeMatrix(points) ==
  [i \in DOMAIN points |-> [j \in DOMAIN points |->
     travelMinutes(distance(points[i].coordinates, points[j].coordinates))]]

CallGenerateTimeMatrix ==
  /\ matPc = "start"
  /\ timeMatrix' = generateTimeMatrix(matPoints)
  /\ matPc' = "done"
  /\ UNCHANGED matPoints
  /\ UNCHANGED notMatrix

InitMatrix ==
  /\ matPoints \in MatPointLists
  /\ timeMatrix = <<>>
  /\ matPc = "start"
  /\ IdleStream /\ IdleStats /\ IdleIso /\ IdleVoronoi /\ IdleDistort /\ IdleTd
  /\ IdleTensor
  /\ IdleAnim /\ IdleGrid

NextMatrix == CallGenerateTimeMatrix

SpecMatrix == InitMatrix /\ [][NextMatrix]_vars

-----------------------------------------------------------------------------
(* calculateTimeDistortion, calculateMaxDistortion (utils/statistical.ts)  *)
(*                                                                         *)
(* The two lists are indexed in parallel; reading .coordinates of an       *)
(* element that is not there (undefined) throws a TypeError.  Distances    *)
(* are turf.distance, as in generateTimeMatrix.                            *)

\* Bound of the model: the longest list.
MaxTdPoints == 2

\* The coordinates of the points of the two lists.
TdSites == {<<0, 0>>, <<0, 20>>, <<20, 40>>}

Thrown == [kind |-> "throw"]

Returned(v) == [kind |-> "value", value |-> v]

\* calculateTimeDistortion(points, distortedPoints): map runs over points
\* alone; distortedPoints[i] beyond the end of distortedPoints is undefined.
calculateTimeDistortion(points, distortedPoints) ==
  IF \E i \in DOMAIN points : i > Len(distortedPoints)
    THEN Thrown
    ELSE Returned([i \in DOMAIN points |-> distance(points[i], distortedPoints[i])])

\* calculateMaxDistortion(points, distortedPoints): Math.max of no argument
\* is -Infinity.
calculateMaxDistortion(points, distortedPoints) ==
  LET distortions == calculateTimeDistortion(points, distortedPoints)
  IN  IF distortions.kind = "throw" THEN Thrown
      ELSE IF distortions.value = <<>> THEN Returned(NegInfinity)
      ELSE Returned(SetMax(Range(distortions.value)))

CallCalculateTimeDistortion ==
  /\ tdPc = "call" /\ tdFn = "calculateTimeDistortion"
  /\ tdOut' = calculateTimeDistortion(tdPoints, tdDistorted)
  /\ tdPc' = "done"
  /\ UNCHANGED <<tdPoints, tdDistorted, tdFn>>
  /\ UNCHANGED notTd

CallCalculateMaxDistortion ==
  /\ tdPc = "call" /\ tdFn = "calculateMaxDistortion"
  /\ tdOut' = calculateMaxDistortion(tdPoints, tdDistorted)
  /\ tdPc' = "done"
  /\ UNCHANGED <<tdPoints, tdDistorted, tdFn>>
  /\ UNCHANGED notTd

InitTd ==
  /\ tdPoints \in SeqsUpTo(TdSites, MaxTdPoints)
  /\ tdDistorted \in SeqsUpTo(TdSites, MaxTdPoints)
  /\ tdFn \in {"calculateTimeDistortion", "calculateMaxDistortion"}
  /\ tdOut = <<>>
  /\ tdPc = "call"
  /\ IdleStream /\ IdleStats /\ IdleIso /\ IdleVoronoi /\ IdleMatrix
  /\ IdleDistort /\ IdleTensor
  /\ IdleAnim /\ IdleGrid

NextTd == CallCalculateTimeDistortion \/ CallCalculateMaxDistortion

SpecTd == InitTd /\ [][NextTd]_vars

-----------------------------------------------------------------------------
(* generateTensorField (utils/visualization.ts)                            *)
(*                                                                         *)
(* Positions are counted in fortieths, so the grid position i / gridSize   *)
(* is 2 * i and a source point may lie on a grid position or between two.  *)
(* A vector of the field is an exact fraction <<x, y, d>> (x / d, y / d),  *)
(* reduced, d > 0.                                                         *)

\* Bound of the model: the longest list of source points.
MaxTensorPoints == 2

gridSize == 20

\* The positions and the displacement vectors of the source points.
TensorPositions == {<<0, 0>>, <<20, 20>>, <<21, 20>>, <<10, 30>>}

TensorVectors == {<<1, 0>>, <<0, 2>>, <<-1, 1>>}

\* Lists of n source points at different positions.
TensorPointLists(n) ==
  {f \in [1..n -> TensorPositions] : \A a, b \in 1..n : a # b => f[a] # f[b]}

\* dx * dx + dy * dy for grid position (i, j) and a source point, in squared
\* fortieths: 0 exactly when distance is 0.
distSq(i, j, point) ==
  (2 * i - point[1]) * (2 * i - point[1]) + (2 * j - point[2]) * (2 * j - point[2])

\* The product of the squared distances of the contributing points other
\* than k: the weight 1 / (distance * distance) of point k, over the common
\* denominator of all the weights.
RECURSIVE weightNum(_, _, _, _, _)
weightNum(points, contributing, i, j, k) ==
  IF contributing = {} THEN 1
  ELSE LET m == CHOOSE m \in contributing : TRUE
           rest == weightNum(points, contributing \ {m}, i, j, k)
       IN  IF m = k THEN rest ELSE distSq(i, j, points[m]) * rest

RECURSIVE SumOver(_, _)
SumOver(f, S) ==
  IF S = {} THEN 0
  ELSE LET m == CHOOSE m \in S : TRUE IN f[m] + SumOver(f, S \ {m})

\* The fraction <<x, y, d>> in lowest terms (d > 0).
Reduced(x, y, d) ==
  LET g == Gcd(Gcd(Abs(x), Abs(y)), d)
  IN  <<x \div g, y \div g, d \div g>>

\* The body of the two loops for grid position (i, j): points at distance 0
\* are skipped; with no contributing point the cell keeps { x: 0, y: 0 }.
fieldCell(points, distortions, i, j) ==
  LET contributing == {k \in DOMAIN points : distSq(i, j, points[k]) > 0}
      w == [k \in contributing |-> weightNum(points, contributing, i, j, k)]
      sumX == SumOver([k \in contributing |-> distortions[k][1] * w[k]], contributing)
      sumY == SumOver([k \in contributing |-> distortions[k][2] * w[k]], contributing)
      weightSum == SumOver(w, contributing)
  IN  IF weightSum > 0 THEN Reduced(sumX, sumY, weightSum) ELSE <<0, 0, 1>>

\* generateTensorField(points, distortions)
generateTensorField(points, distortions) ==
  [i \in 0..(gridSize - 1) |-> [j \in 0..(gridSize - 1) |->
     fieldCell(points, distortions, i, j)]]

CallGenerateTensorField ==
  /\ tfPc = "call"
  /\ field' = generateTensorField(tfPoints, tfDistortions)
  /\ tfPc' = "done"
  /\ UNCHANGED <<tfPoints, tfDistortions>>
  /\ UNCHANGED notTensor

InitTensor ==
  /\ \E n \in 0..MaxTensorPoints :
       /\ tfPoints \in TensorPointLists(n)
       /\ tfDistortions \in [1..n -> TensorVectors]
  /\ field = <<>>
  /\ tfPc = "call"
  /\ IdleStream /\ IdleStats /\ IdleIso /\ IdleVoronoi /\ IdleMatrix
  /\ IdleDistort /\ IdleTd
  /\ IdleAnim /\ IdleGrid

NextTensor == CallGenerateTensorField

SpecTensor == InitTensor /\ [][NextTensor]_vars

-----------------------------------------------------------------------------
(* TimeDistortionMap: the animation (components/Map/TimeDistortionMap.tsx) *)
(*                                                                         *)
(* animationProgress is counted in thousandths and deltaTime in            *)
(* milliseconds, so prev + deltaTime * 0.001 is prev + deltaTime.  The     *)
(* effect of useAnimationFrame depends on the callback and is set up again *)
(* after every render, so a frame runs the callback of the current state.  *)
(* Each handler's state updates and the render that follows are one step.  *)

\* Bounds of the model: the longest time between two frames, in eighths of a
\* second, and the number of button clicks.
MaxDeltaUnits == 9
MaxClicks == 3

\* animationProgress 1, in thousandths.
One == 1000

\* The values of deltaTime, in milliseconds.
DeltaTimes == {k * 125 : k \in 0..MaxDeltaUnits}

\* The event and the state it found.
Event(kind, deltaTime) ==
  [kind |-> kind, deltaTime |-> deltaTime,
   prevProgress |-> animationProgress, prevAnimating |-> isAnimating,
   prevShow |-> showDistortion]

\* Mutants of nextProgress: the end value is not clamped; the animation ends
\* only above 1.
nextProgressUnclamped(next) == next

\* The updater of setAnimationProgress: next >= 1 gives exactly 1.
nextProgress(next) == IF next >= One THEN One ELSE next

\* Mutant of finished: the animation never ends.
finishedNever(next) == FALSE

\* next >= 1, the test under which the updater calls setIsAnimating(false).
finished(next) == next >= One

\* A frame: animate(time).  The first frame only stores its time (deltaTime
\* is not computed); every later one calls the callback with
\* deltaTime = time - previousTimeRef.current.
Frame(deltaTime) ==
  /\ animPc = "mounted"
  /\ IF previousTimeRef = "null"
       THEN /\ animEvent' = Event("firstFrame", 0)
            /\ UNCHANGED <<animationProgress, isAnimating>>
       ELSE /\ animEvent' = Event("frame", deltaTime)
            /\ IF isAnimating
                 THEN /\ animationProgress' = nextProgress(animationProgress + deltaTime)
                      /\ isAnimating' = ~finished(animationProgress + deltaTime)
                 ELSE UNCHANGED <<animationProgress, isAnimating>>
  /\ previousTimeRef' = "set"
  /\ UNCHANGED <<showDistortion, clicks, animPc>>
  /\ UNCHANGED notAnim

AnyFrame == \E deltaTime \in DeltaTimes : Frame(deltaTime)

PositiveFrame == \E deltaTime \in DeltaTimes \ {0} : Frame(deltaTime)

\* The Show / Hide Distortion button.
ClickShowHide ==
  /\ animPc = "mounted" /\ clicks < MaxClicks
  /\ clicks' = clicks + 1
  /\ animEvent' = Event(IF showDistortion THEN "hide" ELSE "show", 0)
  /\ showDistortion' = ~showDistortion
  /\ IF ~showDistortion
       THEN animationProgress' = 0 /\ isAnimating' = TRUE
       ELSE UNCHANGED <<animationProgress, isAnimating>>
  /\ UNCHANGED <<previousTimeRef, animPc>>
  /\ UNCHANGED notAnim

\* The Replay Animation button, rendered while showDistortion is true.
ClickReplay ==
  /\ animPc = "mounted" /\ clicks < MaxClicks
  /\ showDistortion
  /\ clicks' = clicks + 1
  /\ animEvent' = Event("replay", 0)
  /\ animationProgress' = 0
  /\ isAnimating' = TRUE
  /\ UNCHANGED <<showDistortion, previousTimeRef, animPc>>
  /\ UNCHANGED notAnim

\* The useState initial values.
InitAnim ==
  /\ animationProgress = 0
  /\ isAnimating = FALSE
  /\ showDistortion = TRUE
  /\ previousTimeRef = "null"
  /\ clicks = 0
  /\ animEvent = Event("mount", 0)
  /\ animPc = "mounted"
  /\ IdleStream /\ IdleStats /\ IdleIso /\ IdleVoronoi /\ IdleMatrix
  /\ IdleDistort /\ IdleTd /\ IdleTensor /\ IdleGrid

NextAnim == AnyFrame \/ ClickShowHide \/ ClickReplay

SpecAnim == InitAnim /\ [][NextAnim]_vars

\* Frames keep arriving with positive deltaTime.
SpecAnimLive == SpecAnim /\ WF_vars(PositiveFrame)

-----------------------------------------------------------------------------
(* TimeDistortionMap: the grid (components/Map/TimeDistortionMap.tsx)      *)
(*                                                                         *)
(* Lengths are integers, in twelfths of the unit of radius; cellSize is    *)
(* cut to a whole number of them.  A state of the model is a render: the   *)
(* state updates a handler makes are rendered together once it has         *)
(* returned, and the effect of a render runs before the next render.       *)

\* Bound of the model: the largest number of grid cells in a row the density
\* slider is set to.
MaxSide == 4

\* useState(25), the first gridDensity.
DefaultGridDensity == 25

\* The values of the sliders: gridDensity (from its minimum 9), radius (0.5
\* and 1) and distortionFactor.
Densities == {side * side : side \in 3..MaxSide}

Radii == {6, 12}

Factors == 0..MaxFactor

\* map.getCenter()
MapCenter == <<24, 24>>

\* turf.pointGrid(bbox, cellSize, { mask: circle }): the points of the square
\* grid of spacing cellSize over the circle's bounding box that lie in the
\* circle, column by column.
pointGrid(center, radius, cellSize) ==
  LET n == (2 * radius) \div cellSize
      cells == [k \in 1..((n + 1) * (n + 1)) |->
                  <<center[1] - radius + ((k - 1) \div (n + 1)) * cellSize,
                    center[2] - radius + ((k - 1) % (n + 1)) * cellSize>>]
      inCircle(c) ==
        (c[1] - center[1]) * (c[1] - center[1])
          + (c[2] - center[2]) * (c[2] - center[2]) <= radius * radius
  IN  SelectSeq(cells, inCircle)

\* generateGrid(center, radius, pointCount)
generateGrid(center, radius, pointCount) ==
  LET cellSize == (radius * 2) \div Isqrt(pointCount)
      grid == pointGrid(center, radius, cellSize)
  IN  [index \in DOMAIN grid |->
         [id |-> index - 1, coordinates |-> grid[index],
          originalCoordinates |-> grid[index]]]

\* generateTimeMatrix(gridPoints) over the grid: turf.distance is the plane
\* distance at this scale, in twelfths of a mile, and (distance / 30) * 60 is
\* in whole minutes.
gridTimeMatrix(gridPoints) ==
  [i \in DOMAIN gridPoints |-> [j \in DOMAIN gridPoints |->
     LET dx == gridPoints[i].coordinates[1] - gridPoints[j].coordinates[1]
         dy == gridPoints[i].coordinates[2] - gridPoints[j].coordinates[2]
     IN  RoundDiv(Isqrt(dx * dx + dy * dy), 6)]]

\* Mutant of distorted: the distorted list is made from the points state of
\* the last render instead of gridPoints.
distortedOfState(gridPoints, factor) ==
  distortPoints(statePoints, gridTimeMatrix(statePoints), factor)

\* updateGrid's distorted: distortPoints(gridPoints, timeMatrix,
\* distortionFactor) with timeMatrix = generateTimeMatrix(gridPoints).
distorted(gridPoints, factor) ==
  distortPoints(gridPoints, gridTimeMatrix(gridPoints), factor)

\* The handler that ran and the lists it found.
GridEvent(kind) ==
  [kind |-> kind, prevPoints |-> statePoints, prevDistorted |-> stateDistorted]

\* handleMapReady: setMap(map).  updateGrid depends on map: its effect is due
\* when map changed.
MapReady ==
  /\ gridPc = "mounted" /\ ~effectDue
  /\ map' = "map"
  /\ effectDue' = (map # "map")
  /\ gridEvent' = GridEvent("mapReady")
  /\ UNCHANGED <<gridDensity, gridRadius, distortionFactor, statePoints,
                 stateDistorted, gridPc>>
  /\ UNCHANGED notGrid

\* The Grid Density slider: setGridDensity(value[0]).
SetGridDensity(value) ==
  /\ gridPc = "mounted" /\ ~effectDue
  /\ gridDensity' = value
  /\ effectDue' = (gridDensity # value)
  /\ gridEvent' = GridEvent("gridDensity")
  /\ UNCHANGED <<map, gridRadius, distortionFactor, statePoints,
                 stateDistorted, gridPc>>
  /\ UNCHANGED notGrid

\* The Distortion Factor slider: setDistortionFactor(value[0]).
SetDistortionFactor(value) ==
  /\ gridPc = "mounted" /\ ~effectDue
  /\ distortionFactor' = value
  /\ effectDue' = (distortionFactor # value)
  /\ gridEvent' = GridEvent("distortionFactor")
  /\ UNCHANGED <<map, gridDensity, gridRadius, statePoints, stateDistorted,
                 gridPc>>
  /\ UNCHANGED notGrid

\* The Radius slider: setRadius(value[0]).
SetRadius(value) ==
  /\ gridPc = "mounted" /\ ~effectDue
  /\ gridRadius' = value
  /\ effectDue' = (gridRadius # value)
  /\ gridEvent' = GridEvent("radius")
  /\ UNCHANGED <<map, gridDensity, distortionFactor, statePoints,
                 stateDistorted, gridPc>>
  /\ UNCHANGED notGrid

\* useEffect(() => { updateGrid() }, [updateGrid]): setPoints and
\* setDistortedPoints are called in the one run of the effect.
updateGrid ==
  /\ gridPc = "mounted" /\ effectDue
  /\ effectDue' = FALSE
  /\ gridEvent' = GridEvent("updateGrid")
  /\ IF map = "null"
       THEN UNCHANGED <<statePoints, stateDistorted>>
       ELSE LET gridPoints == generateGrid(MapCenter, gridRadius, gridDensity)
            IN  /\ statePoints' = gridPoints
                /\ stateDistorted' = distorted(gridPoints, distortionFactor)
  /\ UNCHANGED <<map, gridDensity, gridRadius, distortionFactor, gridPc>>
  /\ UNCHANGED notGrid

ChangeGridDensity == \E value \in Densities : SetGridDensity(value)

ChangeDistortionFactor == \E value \in Factors : SetDistortionFactor(value)

ChangeRadius == \E value \in Radii : SetRadius(value)

\* The useState initial values; the effect of the first render is due.
InitGrid ==
  /\ map = "null"
  /\ gridDensity = DefaultGridDensity
  /\ gridRadius = 6
  /\ distortionFactor = 1
  /\ statePoints = <<>>
  /\ stateDistorted = <<>>
  /\ effectDue = TRUE
  /\ gridEvent = GridEvent("mount")
  /\ gridPc = "mounted"
  /\ IdleStream /\ IdleStats /\ IdleIso /\ IdleVoronoi /\ IdleMatrix
  /\ IdleDistort /\ IdleTd /\ IdleTensor /\ IdleAnim

NextGrid ==
  \/ MapReady
  \/ ChangeGridDensity
  \/ ChangeDistortionFactor
  \/ ChangeRadius
  \/ updateGrid

SpecGrid == InitGrid /\ [][NextGrid]_vars

-----------------------------------------------------------------------------
(* Claims about createStreamlines                                          *)

\* The uniform-field scenario: field (1, 0) everywhere, stepSize 0.1,
\* lineLength 1 (in units of 0.1), maxSteps at its default.
ScenarioC ==
  /\ vectorField = UniformField
  /\ options = [stepSize |-> 1, maxSteps |-> DefaultMaxSteps, lineLength |-> 10]

\* The lines integrateLine has returned: those kept in streamlines and the one
\* being handed back.
ReturnedLines ==
  Range(streamlines) \cup (IF spc = "return" THEN {line} ELSE {})

\* C1 (as stated): the loop body of integrateLine runs at most maxSteps times
\* per seed, and for every returned line (number of points x stepSize) is at
\* most lineLength + stepSize.
C1_Original ==
  /\ iters <= options.maxSteps
  /\ \A l \in ReturnedLines :
       Len(l) * options.stepSize <= options.lineLength + options.stepSize

\* C1 (amended): the loop body of integrateLine runs at most maxSteps times per
\* seed, and for every returned line (number of points x stepSize) is at most
\* lineLength + stepSize, except that with lineLength < stepSize a line may
\* still take its first step and end with exactly 2 points.
C1_Theorem ==
  /\ iters <= options.maxSteps
  /\ \A l \in ReturnedLines :
       \/ Len(l) * options.stepSize <= options.lineLength + options.stepSize
       \/ Len(l) = 2 /\ options.lineLength < options.stepSize

\* A line of at least 3 points that was ended by the length test exactly at
\* lineLength + stepSize, in a run where another seed's line was returned.
C1_Witness ==
  /\ spc = "return" /\ stop = "length"
  /\ Len(line) >= 3
  /\ Len(line) * options.stepSize = options.lineLength + options.stepSize
  /\ iters <= options.maxSteps
  /\ streamlines # <<>>

\* C10 (as stated): in the uniform-field scenario a line that is ended by the
\* length test (not by the bounds, the field's edge or maxSteps) has exactly
\* 10 points, each one stepSize further along +x than the previous.
C10_Original ==
  (ScenarioC /\ spc = "return" /\ stop = "length") =>
     /\ Len(line) = 10
     /\ \A k \in 2..Len(line) :
          line[k] = <<line[k - 1][1] + options.stepSize, line[k - 1][2]>>

\* C10 (amended): in the uniform-field scenario a line that is ended by the
\* length test has exactly 11 points, the seed and 10 steps, each one stepSize
\* further along +x than the previous.
C10_Theorem ==
  (ScenarioC /\ spc = "return" /\ stop = "length") =>
     /\ Len(line) = 11
     /\ \A k \in 2..Len(line) :
          line[k] = <<line[k - 1][1] + options.stepSize, line[k - 1][2]>>

\* A line of the scenario that was ended by the length test.
C10_Witness ==
  /\ ScenarioC /\ spc = "return" /\ stop = "length"
  /\ Len(line) = 11
  /\ line[11] = <<line[1][1] + 10, line[1][2]>>

-----------------------------------------------------------------------------
(* Claims about the normalisations                                         *)

\* C4: when every sample has the same value (max = min) the heatmap
\* normalisation gives 0 for every sample, never NaN or an infinity, in
\* generateHeatmapData (intensity) and in HeatmapLayer (normalizedTime).
C4_Claim ==
  LET ts == Times(travelTimes)
      constant == travelTimes # <<>> /\ SetMax(Range(ts)) = SetMin(Range(ts))
  IN  /\ (called = "generateHeatmapData" /\ constant) =>
            \A k \in DOMAIN result : IsZero(result[k].intensity)
      /\ (called = "HeatmapLayer" /\ constant) =>
            \A k \in DOMAIN result : IsZero(result[k].normalizedTime)

\* C5: when every connectivity value is 0, findCentralPoints returns
\* centrality 0 for every point, never NaN.
C5_Claim ==
  (/\ called = "findCentralPoints"
   /\ travelTimes # <<>>
   /\ \A i \in DOMAIN travelTimes :
        calculateConnectivity(travelTimes, timeThreshold)[i] = 0)
  => \A i \in DOMAIN result : IsZero(result[i])

-----------------------------------------------------------------------------
(* Claims about calculateIsochrones and calculateAreaCoverage              *)

\* The points whose coordinates are numbers.
ValidOnly(points) == SelectSeq(points, LAMBDA p : ~p.coordinates.nan)

\* C7: calculateIsochrones never lets a geometric failure escape; it returns
\* one band per threshold, in the order of the thresholds and carrying that
\* threshold; a hull step that throws or returns nothing gives the empty ring
\* for that threshold, and every threshold whose own points are sound gets
\* the band it would get if the failing points were not in the list.
C7_Theorem ==
  isoFn = "isochrones" =>
    /\ isoPc # "thrown"
    /\ Len(isoOut) <= Len(timeThresholds)
    /\ isoPc = "done" => Len(isoOut) = Len(timeThresholds)
    /\ \A k \in DOMAIN isoOut :
         /\ isoOut[k].threshold = timeThresholds[k]
         /\ isoTrace[k].outcome \in {"throw", "null"} => isoOut[k].coordinates = <<>>
         /\ isoTrace[k].outcome # "throw" =>
              isoOut[k] = isochroneBand(ValidOnly(isoPoints), timeThresholds[k])

\* All thresholds handled; the hull step threw for one of them and another one
\* got a ring.
C7_Witness ==
  /\ isoFn = "isochrones" /\ isoPc = "done"
  /\ \E k \in DOMAIN isoOut : isoTrace[k].outcome = "throw"
  /\ \E k \in DOMAIN isoOut : isoOut[k].coordinates # <<>>

\* The travelTime values 5, 15, 25 with the thresholds 10, 20, 30.
ScenarioD ==
  /\ [k \in DOMAIN isoPoints |-> isoPoints[k].travelTime] = <<5, 15, 25>>
  /\ timeThresholds = <<10, 20, 30>>

\* C8: a threshold with fewer than 3 points of travelTime <= t (an absent
\* travelTime read as 0) gets the empty ring and no hull is tried; a hull is
\* tried only with at least 3 points; with travelTime 5, 15, 25 and thresholds
\* 10, 20, 30 the bands for 10 and 20 are empty and the band for 30 is built
\* from all 3 points.
C8_Theorem ==
  isoFn = "isochrones" =>
    /\ \A k \in DOMAIN isoOut :
         LET n == Cardinality({i \in DOMAIN isoPoints :
                     TimeOf(isoPoints[i].travelTime) <= timeThresholds[k]})
         IN  /\ n < 3 => (isoOut[k].coordinates = <<>> /\ ~isoTrace[k].attempted)
             /\ isoTrace[k].attempted => n >= 3
             /\ n >= 3 => isoTrace[k].attempted
    /\ (ScenarioD /\ isoPc = "done") =>
         /\ isoOut[1].coordinates = <<>> /\ ~isoTrace[1].attempted
         /\ isoOut[2].coordinates = <<>> /\ ~isoTrace[2].attempted
         /\ isoTrace[3].attempted /\ isoTrace[3].source = isoPoints
         /\ (\A i \in DOMAIN isoPoints : ~isoPoints[i].coordinates.nan) =>
               Range(isoOut[3].coordinates) =
                 {<<isoPoints[i].coordinates.x, isoPoints[i].coordinates.y>> :
                    i \in DOMAIN isoPoints}

\* Scenario D, finished, with a ring for the threshold 30.
C8_Witness ==
  /\ isoFn = "isochrones" /\ isoPc = "done" /\ ScenarioD
  /\ isoOut[1].coordinates = <<>> /\ isoOut[2].coordinates = <<>>
  /\ isoOut[3].coordinates # <<>>

-----------------------------------------------------------------------------
(* Claims about generateVoronoi                                            *)

\* C6: generateVoronoi returns exactly one ring per input point, in input
\* order: the result is as long as the point list, ring k is the cell of
\* point k, and it is the empty ring where the cell is undefined or clipped
\* away.
C6_Claim ==
  vorPc = "done" =>
    /\ Len(vorOut) = Len(vorPoints)
    /\ \A k \in DOMAIN vorOut : vorOut[k] = cellPolygon(vorPoints, vorSize, k)

-----------------------------------------------------------------------------
(* Claims about distortPoints                                              *)

\* The displacement of point i in the result of call c: distorted coordinates
\* minus input coordinates.
Displacement(c, i) ==
  <<dOut[c].points[i].coordinates[1] - dPoints[i].coordinates[1],
    dOut[c].points[i].coordinates[2] - dPoints[i].coordinates[2]>>

\* C3 (as stated): for a fixed list and matrix the displacement of every point
\* at factor 2k is twice its displacement at factor k, and at factor 0 every
\* point keeps its input coordinates.
C3_Original ==
  /\ Len(dOut) >= 2 =>
       \A i \in DOMAIN dPoints :
         /\ Displacement(2, i)[1] = 2 * Displacement(1, i)[1]
         /\ Displacement(2, i)[2] = 2 * Displacement(1, i)[2]
  /\ Len(dOut) >= 3 =>
       \A i \in DOMAIN dPoints : dOut[3].points[i].coordinates = dPoints[i].coordinates

\* C3 (amended): the offset distortPoints adds to every point at factor 2k is
\* exactly twice the offset it adds at factor k, and at factor 0 every point
\* keeps its input coordinates; the displacement read back from the stored
\* coordinates is the offset rounded to the coordinates' floating-point
\* spacing, so at factor 2k it is twice the displacement at factor k to
\* within one unit of that spacing per axis.
C3_Theorem ==
  /\ Len(dOut) >= 2 =>
       \A i \in DOMAIN dPoints :
         /\ dOut[2].offsets[i][1] = 2 * dOut[1].offsets[i][1]
         /\ dOut[2].offsets[i][2] = 2 * dOut[1].offsets[i][2]
         /\ Abs(Displacement(2, i)[1] - 2 * Displacement(1, i)[1]) <= 1
         /\ Abs(Displacement(2, i)[2] - 2 * Displacement(1, i)[2]) <= 1
  /\ Len(dOut) >= 3 =>
       \A i \in DOMAIN dPoints : dOut[3].points[i].coordinates = dPoints[i].coordinates

\* The three calls made; some point moved at factor k, and some displacement
\* at factor 2k is exactly twice the one at factor k.
C3_Witness ==
  /\ dPc = "done"
  /\ \E i \in DOMAIN dPoints :
       /\ Displacement(1, i) # <<0, 0>>
       /\ Displacement(2, i)[1] = 2 * Displacement(1, i)[1]
       /\ Displacement(2, i)[2] = 2 * Displacement(1, i)[2]
  /\ \E i \in DOMAIN dPoints : Displacement(2, i)[2] < 0

-----------------------------------------------------------------------------
(* Claims about generateTimeMatrix                                         *)

\* C2: for every point list, the matrix M returned by generateTimeMatrix is
\* N x N with M[i][i] = 0 for all i and M[i][j] = M[j][i] for all i, j.
C2_Claim ==
  matPc = "done" =>
    /\ Len(timeMatrix) = Len(matPoints)
    /\ \A i \in DOMAIN timeMatrix :
         /\ Len(timeMatrix[i]) = Len(matPoints)
         /\ timeMatrix[i][i] = 0
         /\ \A j \in DOMAIN timeMatrix : timeMatrix[i][j] = timeMatrix[j][i]

-----------------------------------------------------------------------------
(* Claims about calculateTimeDistortion and calculateMaxDistortion         *)

\* C11: when points and distortedPoints have different lengths (distortedPoints
\* shorter or longer), calculateTimeDistortion and calculateMaxDistortion fail
\* with an error instead of returning a result.
C11_Claim ==
  (tdPc = "done" /\ Len(tdPoints) # Len(tdDistorted)) => tdOut.kind = "throw"

-----------------------------------------------------------------------------
(* Claims about generateHeatmapData, calculateConnectivity, NetworkLayer   *)

\* Sample k holds the least (the greatest) travelTime of the list, an absent
\* travelTime read as 0.
HoldsMin(k) == \A j \in DOMAIN travelTimes : TimeOf(travelTimes[k]) <= TimeOf(travelTimes[j])

HoldsMax(k) == \A j \in DOMAIN travelTimes : TimeOf(travelTimes[j]) <= TimeOf(travelTimes[k])

\* The samples' maximum is strictly greater than their minimum.
Spread == \E j, k \in DOMAIN travelTimes : TimeOf(travelTimes[j]) < TimeOf(travelTimes[k])

\* C12: when the samples' maximum travelTime is strictly greater than their
\* minimum, generateHeatmapData gives intensity 0 to every sample holding the
\* minimum, 1 to every sample holding the maximum and a value within [0, 1] to
\* every sample, a missing travelTime being read as 0.
C12_Theorem ==
  (called = "generateHeatmapData" /\ Spread) =>
    /\ Len(result) = Len(travelTimes)
    /\ \A k \in DOMAIN result :
         LET v == result[k].intensity
         IN  /\ v.kind = "num"
             /\ 0 <= v.n /\ v.n <= v.d
             /\ HoldsMin(k) => v.n = 0
             /\ HoldsMax(k) => v.n = v.d

\* A list with a missing travelTime, a
\* sample strictly between the extremes and an intensity strictly inside (0, 1).
C12_Witness ==
  /\ called = "generateHeatmapData" /\ Spread
  /\ \E k \in DOMAIN travelTimes : travelTimes[k] = None
  /\ \E k \in DOMAIN result : 0 < result[k].intensity.n
                              /\ result[k].intensity.n < result[k].intensity.d

\* C13: calculateConnectivity(points, threshold)[i] is the number of indices
\* j # i whose travelTime is strictly below the threshold (a missing
\* travelTime counts as 0): the number of all such indices, less one when
\* point i is itself below the threshold.
C13_Theorem ==
  called = "calculateConnectivity" =>
    /\ Len(result) = Len(travelTimes)
    /\ \A i \in DOMAIN result :
         LET below == {j \in DOMAIN travelTimes :
                         (IF travelTimes[j] = None THEN 0 ELSE travelTimes[j])
                           < timeThreshold}
         IN  result[i] = Cardinality(below) - (IF i \in below THEN 1 ELSE 0)

\* A call with the default threshold on a list with a point exactly at the
\* threshold, a point without travelTime and a point that counts others but
\* not itself.
C13_Witness ==
  /\ called = "calculateConnectivity" /\ timeThreshold = DefaultThreshold
  /\ \E k \in DOMAIN travelTimes : travelTimes[k] = DefaultThreshold
  /\ \E k \in DOMAIN travelTimes : travelTimes[k] = None
  /\ \E i \in DOMAIN result : result[i] = Len(travelTimes) - 1
  /\ \E i \in DOMAIN result : result[i] < Len(travelTimes) - 1

\* C20: the connection count NetworkLayer computes for point i equals
\* calculateConnectivity(distortedPoints, 20)[i].
C20_Claim ==
  called = "NetworkLayer" =>
    \A i \in DOMAIN result :
      result[i].connections = calculateConnectivity(travelTimes, 20)[i]

-----------------------------------------------------------------------------
(* Claims about generateTensorField                                        *)

\* C14: when a grid position coincides exactly with a source point (distance
\* 0), the cell's vector is that source point's displacement vector; with a
\* single source point lying exactly on a grid position, that cell holds the
\* point's vector rather than the zero vector.
C14_Claim ==
  tfPc = "done" =>
    \A k \in DOMAIN tfPoints : \A i, j \in 0..(gridSize - 1) :
      (2 * i = tfPoints[k][1] /\ 2 * j = tfPoints[k][2]) =>
        field[i][j] = <<tfDistortions[k][1], tfDistortions[k][2], 1>>

-----------------------------------------------------------------------------
(* Further claims about createStreamlines                                  *)

\* The seed positions, seedDensity x seedDensity of them.
SeedPositions == {seedPoint(k) : k \in 0..(NumSeeds - 1)}

\* C15: createStreamlines returns a seed's line if and only if the integration
\* from that seed appended at least one point after the seed: the result is,
\* in seed order, exactly the lines of the seeds handled that have at least 2
\* points; every returned line starts at one of the 10 x 10 seed positions
\* and at most 100 lines are returned.
C15_Theorem ==
  /\ NumSeeds = 100
  /\ \A k \in DOMAIN integrated : integrated[k][1] = seedPoint(k - 1)
  /\ Len(integrated) <= NumSeeds
  /\ spc = "done" => Len(integrated) = NumSeeds
  /\ streamlines = SelectSeq(integrated, LAMBDA l : Len(l) >= 2)
  /\ Len(streamlines) <= 100
  /\ LET positions == SeedPositions
     IN  \A k \in DOMAIN streamlines :
           Len(streamlines[k]) >= 2 /\ streamlines[k][1] \in positions

\* All seeds handled: some lines were kept and some seeds were dropped.
C15_Witness ==
  /\ spc = "done"
  /\ 0 < Len(streamlines) /\ Len(streamlines) < NumSeeds

\* C16 (as stated): for every returned streamline and all positive stepSize
\* and lineLength (including lineLength smaller than stepSize), the arc
\* length (number of points - 1) x stepSize is at most lineLength.
C16_Original ==
  (options.stepSize > 0 /\ options.lineLength > 0) =>
    \A l \in Range(streamlines) :
      (Len(l) - 1) * options.stepSize <= options.lineLength

\* C16 (amended): for every returned streamline and all positive stepSize and
\* lineLength with lineLength >= stepSize, the arc length (number of points
\* - 1) x stepSize is at most lineLength; with lineLength < stepSize every
\* returned streamline has exactly 2 points and its arc length is stepSize.
C16_Theorem ==
  (options.stepSize > 0 /\ options.lineLength > 0) =>
    \A l \in Range(streamlines) :
      IF options.lineLength >= options.stepSize
        THEN (Len(l) - 1) * options.stepSize <= options.lineLength
        ELSE Len(l) = 2

\* A returned streamline of at least 3 points whose arc length is exactly
\* lineLength.
C16_Witness ==
  /\ options.stepSize > 0 /\ options.lineLength > 0
  /\ \E l \in Range(streamlines) :
       Len(l) >= 3 /\ (Len(l) - 1) * options.stepSize = options.lineLength

-----------------------------------------------------------------------------
(* Further claims about distortPoints                                      *)

\* The calls of the distortPoints of TimeDistortionMap.tsx made so far.
MapCalls == {c \in DOMAIN dOut : dOut[c].fn = "TimeDistortionMap"}

\* C17: distortPoints leaves its input point list and time matrix unmodified
\* (the list is still as generateGrid made it, coordinates equal to
\* originalCoordinates, the matrix still symmetric with zero diagonal), and
\* output point i keeps the id and originalCoordinates of input point i;
\* only coordinates and travelTime differ from the input.
C17_Theorem ==
  /\ dPc # "idle" => (dPoints \in GridPointLists /\ dMatrix \in TimeMatrices(Len(dPoints)))
  /\ \A c \in MapCalls :
       /\ Len(dOut[c].points) = Len(dPoints)
       /\ \A i \in DOMAIN dPoints :
            LET out == dOut[c].points[i]
            IN  /\ DOMAIN out = DOMAIN dPoints[i] \cup {"travelTime"}
                /\ out.id = dPoints[i].id
                /\ out.originalCoordinates = dPoints[i].originalCoordinates
                /\ out.originalCoordinates = dPoints[i].coordinates

\* A call that moved a point: its coordinates differ from the input's, its
\* originalCoordinates do not.
C17_Witness ==
  \E c \in MapCalls : \E i \in DOMAIN dPoints :
    /\ dOut[c].points[i].coordinates # dPoints[i].coordinates
    /\ dOut[c].points[i].originalCoordinates = dPoints[i].coordinates
    /\ i > 1

\* C18: every point returned by the distortion engine carries travelTime equal
\* to the mean of its row of the time matrix, for the distortPoints of
\* TimeDistortionMap and for the one exported from utils/distortion.ts.
C18_Claim ==
  \A c \in DOMAIN dOut : \A i \in DOMAIN dPoints :
    LET out == dOut[c].points[i]
    IN  /\ "travelTime" \in DOMAIN out
        /\ out.travelTime.kind = "num"
        /\ out.travelTime.n * Len(dMatrix[i]) = out.travelTime.d * RowSum(dMatrix[i])

-----------------------------------------------------------------------------
(* Further claims about generateVoronoi                                    *)

Lcm(a, b) == (a * b) \div Gcd(a, b)

RECURSIVE LcmOf(_)
LcmOf(S) == IF S = {} THEN 1
            ELSE LET d == CHOOSE d \in S : TRUE IN Lcm(d, LcmOf(S \ {d}))

\* The common denominator of the corners of all the rings returned.
RingsDen == LcmOf({q[3] : q \in UNION Range(vorOut)})

\* Twice the area of a ring (a convex polygon given by its corners), in units
\* of 1 / (den * den).
RingArea2(ring, den) ==
  HullArea2({<<q[1] * (den \div q[3]), q[2] * (den \div q[3])>> : q \in ring})

RECURSIVE SumAreas2(_, _)
SumAreas2(rings, den) ==
  IF rings = <<>> THEN 0
  ELSE RingArea2(Head(rings), den) + SumAreas2(Tail(rings), den)

\* All sites lie inside the clip rectangle (its border included).
SitesInside ==
  \A k \in DOMAIN vorPoints :
    /\ 0 <= vorPoints[k][1] /\ vorPoints[k][1] <= vorSize[1]
    /\ 0 <= vorPoints[k][2] /\ vorPoints[k][2] <= vorSize[2]

\* Ring a lies on site i's side of the bisector of sites i and j.
OnSideOf(a, i, j) ==
  \A q \in a :
    2 * (vorPoints[j][1] - vorPoints[i][1]) * q[1]
      + 2 * (vorPoints[j][2] - vorPoints[i][2]) * q[2]
    <= (vorPoints[j][1] * vorPoints[j][1] + vorPoints[j][2] * vorPoints[j][2]
        - vorPoints[i][1] * vorPoints[i][1] - vorPoints[i][2] * vorPoints[i][2]) * q[3]

C19_WitnessGeneral ==
  /\ vorPc = "done" /\ SitesInside /\ Len(vorPoints) = 3
  /\ Len(vorOut) = 3
  /\ Cross(vorPoints[1], vorPoints[2], vorPoints[3]) # 0
  /\ RingsDen > 1

-----------------------------------------------------------------------------
(* Claims about the bounds of createStreamlines                            *)

\* xmin <= x <= xmax and ymin <= y <= ymax
InBounds(q) ==
  /\ bounds[1] <= q[1] /\ q[1] <= bounds[3]
  /\ bounds[2] <= q[2] /\ q[2] <= bounds[4]

\* C21: every point of every line returned by createStreamlines (and of every
\* line integrateLine builds) lies inside the bounds rectangle; a step that
\* would leave the bounds ends the line without its end position being
\* appended.
C21_Theorem ==
  spc # "idle" =>
    /\ \A k \in DOMAIN streamlines : \A n \in DOMAIN streamlines[k] :
         InBounds(streamlines[k][n])
    /\ \A n \in DOMAIN line : InBounds(line[n])
    /\ (spc = "return" /\ stop = "bounds") =>
         /\ ~InBounds(cur)
         /\ line[Len(line)] # cur
         /\ Len(line) = iters

\* A line that took a step, then was ended by a step that left the bounds
\* downwards (through ymin), in a run that already returned a line.
C21_Witness ==
  /\ spc = "return" /\ stop = "bounds"
  /\ Len(line) >= 2
  /\ cur[2] < bounds[2]
  /\ streamlines # <<>>

-----------------------------------------------------------------------------
(* Claims about the animation                                              *)

\* C22: across any sequence of frames with non-negative deltaTime, Show/Hide
\* clicks and Replay clicks, animationProgress stays within [0, 1]; a frame
\* that would bring it to 1 or above sets it to exactly 1 and sets isAnimating
\* to false; a frame arriving while isAnimating is false leaves
\* animationProgress unchanged.
C22_Theorem ==
  animPc = "mounted" =>
    /\ 0 <= animationProgress /\ animationProgress <= 1000
    /\ (/\ animEvent.kind = "frame" /\ animEvent.prevAnimating
        /\ animEvent.prevProgress + animEvent.deltaTime >= 1000)
         => (animationProgress = 1000 /\ ~isAnimating)
    /\ (/\ animEvent.kind = "frame" /\ animEvent.prevAnimating
        /\ animEvent.prevProgress + animEvent.deltaTime < 1000)
         => (/\ animationProgress = animEvent.prevProgress + animEvent.deltaTime
             /\ isAnimating)
    /\ (animEvent.kind \in {"frame", "firstFrame"} /\ ~animEvent.prevAnimating)
         => (animationProgress = animEvent.prevProgress /\ ~isAnimating)

\* A frame that overshot 1 from strictly inside (0, 1) and ended the
\* animation.
C22_Witness ==
  /\ animPc = "mounted"
  /\ animEvent.kind = "frame" /\ animEvent.prevAnimating
  /\ 0 < animEvent.prevProgress
  /\ animEvent.prevProgress + animEvent.deltaTime > 1000
  /\ animationProgress = 1000 /\ ~isAnimating

\* Replay was just clicked, or distortion just switched from hidden to shown.
Started == animPc = "mounted" /\ animEvent.kind \in {"replay", "show"}

\* The animation is over.
Done == animationProgress = 1000 /\ ~isAnimating

\* C23: after Replay is clicked, or distortion is switched from hidden to
\* shown, animationProgress is 0 with isAnimating true, and if frames keep
\* arriving with positive deltaTime and no further click occurs, the animation
\* eventually reaches animationProgress = 1 with isAnimating false and stays
\* there.
C23_Theorem ==
  /\ [](Started => (animationProgress = 0 /\ isAnimating))
  /\ \A n \in 1..MaxClicks :
       []((Started /\ clicks = n /\ [](clicks = n)) => <>[]Done)

\* An animation started by a click has run over several frames to its end.
C23_Witness ==
  /\ animPc = "mounted" /\ clicks >= 1
  /\ Done
  /\ animEvent.kind = "frame" /\ animEvent.prevAnimating
  /\ animEvent.prevProgress > 0

-----------------------------------------------------------------------------
(* Claims about the grid                                                   *)

\* Both lists have the same indices, with the same id at each.
SameIds(ps, ds) ==
  /\ Len(ps) = Len(ds)
  /\ \A index \in DOMAIN ps : ps[index].id = ds[index].id

\* C24: in every state MapController renders, across any sequence of
\* map-ready events and changes of grid density, radius and distortion
\* factor, points and distortedPoints have the same length and the same id at
\* every index (both are empty until the map is ready), so points[index] for
\* an index of distortedPoints, and distortedPoints[index] for an index of
\* points, is never out of range.
C24_Theorem ==
  /\ SameIds(statePoints, stateDistorted)
  /\ map = "null" => (statePoints = <<>> /\ stateDistorted = <<>>)
  /\ \A index \in DOMAIN stateDistorted : index \in DOMAIN statePoints
  /\ \A index \in DOMAIN statePoints : index \in DOMAIN stateDistorted

\* updateGrid has replaced two non-empty lists by lists of another length.
C24_Witness ==
  /\ gridPc = "mounted" /\ gridEvent.kind = "updateGrid"
  /\ gridEvent.prevPoints # <<>>
  /\ statePoints # <<>>
  /\ Len(statePoints) # Len(gridEvent.prevPoints)
  /\ Len(stateDistorted) = Len(statePoints)
  /\ \E index \in DOMAIN statePoints :
       stateDistorted[index].coordinates # statePoints[index].coordinates

=============================================================================
